---- MODULE Spec2Model ----
(***************************************************************************)
(* State-machine model of src/index.js: the device registry (list + two    *)
(* indices), the socket.io connection gateway and the /send request        *)
(* correlation table.                                                      *)
(*                                                                         *)
(* Node runs every handler to completion on one event loop, so each HTTP   *)
(* handler, socket event handler and timer callback is one atomic action.  *)
(* A promise continuation (the code after `await` in /send) is a microtask *)
(* that runs before the next handler or timer, so it is part of the action *)
(* that settles the promise.                                               *)
(*                                                                         *)
(* Device records are JavaScript objects shared by reference between       *)
(* `devices`, `deviceByKey`, `deviceByDeviceId` and `socket.deviceObj`;    *)
(* the model keeps them in `heap` and the containers hold heap addresses.  *)
(* crypto.randomBytes / Date.now()+Math.random() tokens are modelled as    *)
(* values never handed out before.                                         *)
(***************************************************************************)
EXTENDS Integers, Sequences, FiniteSets, TLC

\* ---------------------------------------------------------------- bounds
MaxDevices == 2
MaxSockets == 2
MaxRequests == 2
MaxResolverCalls == 2
MaxWrites == 2
MaxTicks == 5

\* ------------------------------------------------------------- constants
\* JavaScript null / undefined (socketid: null, a missing body field)
Null == 0

Keys == {"k1", "k2"}
KeyInputs == Keys \cup {""}
DeviceIds == 1..MaxDevices
DeviceIdInputs == DeviceIds \cup {Null}
SocketIds == 1..MaxSockets
ReqNums == 1..MaxRequests
DestNumberInputs == {"", "+15551234567"}
TextMessageInputs == {"", "hi"}
\* requestId = `${deviceId}-${Date.now()}-${random}`: the device id plus a
\* token that no other call gets
RequestIdInputs == DeviceIds \X ReqNums
ResponseInputs ==
  { [requestId |-> r, status |-> TRUE, message |-> "sent"] : r \in RequestIdInputs }
  \cup
  { [requestId |-> r, status |-> FALSE, message |-> "failed"] : r \in RequestIdInputs }

VARIABLES
  heap,             \* device objects: address -> [id, key, deviceid, socketid]
  devices,          \* let devices = []            (sequence of addresses)
  deviceByKey,      \* new Map(): key -> address
  deviceByDeviceId, \* new Map(): deviceid -> address
  pendingRequests,  \* new Map(): requestId -> resolver closure (its send call)
  cacheDirty,       \* let cacheDirty = false
  sock,             \* socket.io sockets: id -> [state, deviceId, deviceObj, heartbeatCheck]
  inbox,            \* events the server pushed to each socket, in order
  req,              \* one entry per /send call that reached `new Promise`
  last,             \* the last handler that ran: whether it took its main path
                    \* and, for an HTTP handler that answered at once, its response
  file,             \* devices.json: [status, doc]
  writes,           \* fs.writeFile calls of saveDevices that have not finished
  phase,            \* the process: "down", "up", "stopping", "closing", "exited"
  shutdownFlush,    \* what the saveDevices call of the SIGINT handler did
  now,              \* Date.now()
  lastHeartbeat,    \* let lastHeartbeat, one per connection
  nextCheck         \* when the heartbeatCheck interval of a connection is due next

vars == <<heap, devices, deviceByKey, deviceByDeviceId, pendingRequests,
          cacheDirty, sock, inbox, req, last,
          file, writes, phase, shutdownFlush, now, lastHeartbeat, nextCheck>>

diskVars == <<file, writes>>
processVars == <<phase, shutdownFlush>>
clockVars == <<now, lastHeartbeat, nextCheck>>

registryVars == <<heap, devices, deviceByKey, deviceByDeviceId>>

\* ------------------------------------------------------------ Map helpers
MapHas(m, k) == k \in DOMAIN m
MapSet(m, k, v) == [x \in DOMAIN m \cup {k} |-> IF x = k THEN v ELSE m[x]]
MapDelete(m, k) == [x \in DOMAIN m \ {k} |-> m[x]]
EmptyMap == [x \in {} |-> Null]

NoRequestId == <<Null, Null>>

\* Which handler ran, whether it took its main path, and what it answered
\* (status 0: this step sent no HTTP response)
Handled(op, ok, status, body) ==
  [op |-> op, ok |-> ok, status |-> status, body |-> body]

\* the setInterval period of heartbeatCheck and the liveness window, in
\* milliseconds
CheckInterval == 10000
HeartbeatWindow == 30000

\* devices.json: absent, unreadable as a JSON array, or a document
FileMissing == [status |-> "missing", doc |-> <<>>]
FileCorrupt == [status |-> "corrupt", doc |-> <<>>]
Document(doc) == [status |-> "ok", doc |-> doc]

\* the server accepts HTTP requests and connections
Listening == phase \in {"up", "stopping"}
\* the process runs its event loop
Alive == phase \in {"up", "stopping", "closing"}

\* the process right after startServer found no devices.json
Init ==
  /\ heap = <<>>
  /\ devices = <<>>
  /\ deviceByKey = EmptyMap
  /\ deviceByDeviceId = EmptyMap
  /\ pendingRequests = EmptyMap
  /\ cacheDirty = FALSE
  /\ sock = [s \in SocketIds |->
               [state |-> "new", deviceId |-> Null, deviceObj |-> Null,
                heartbeatCheck |-> FALSE]]
  /\ inbox = [s \in SocketIds |-> <<>>]
  /\ req = <<>>
  /\ last = Handled("init", FALSE, 0, "")
  /\ file = Document(<<>>)
  /\ writes = <<>>
  /\ phase = "up"
  /\ shutdownFlush = "none"
  /\ now = 0
  /\ lastHeartbeat = [s \in SocketIds |-> 0]
  /\ nextCheck = [s \in SocketIds |-> 0]

\* ------------------------------------------------------- device registry
\* devices.includes(key): the list holds records, never a key
KeyExistsInList(key) == FALSE

\* line 81: deviceByKey.has(key)
KeyExists(key) == MapHas(deviceByKey, key)

\* a deviceid generator that returns the same value every time
NewDeviceSameDeviceId(key) ==
  [id |-> Len(heap) + 1, key |-> key, deviceid |-> 1, socketid |-> Null]

\* lines 85-93: a fresh object with fresh random id / deviceid
NewDevice(key) ==
  [id |-> Len(heap) + 1, key |-> key, deviceid |-> Len(heap) + 1, socketid |-> Null]

\* POST /device
CreateDevice(key) ==
  /\ Listening
  /\ UNCHANGED <<diskVars, processVars, clockVars>>
  /\ IF key = ""
     THEN /\ last' = Handled("create", FALSE, 400, "Key is required")
          /\ UNCHANGED <<registryVars, pendingRequests, cacheDirty, sock, inbox, req>>
     ELSE IF KeyExists(key)
     THEN /\ last' = Handled("create", FALSE, 409, "Key already exists")
          /\ UNCHANGED <<registryVars, pendingRequests, cacheDirty, sock, inbox, req>>
     ELSE /\ Len(heap) < MaxDevices
          /\ LET newDevice == NewDevice(key)
                 addr == Len(heap) + 1
             IN /\ heap' = Append(heap, newDevice)
                /\ devices' = Append(devices, addr)
                /\ deviceByKey' = MapSet(deviceByKey, key, addr)
                /\ deviceByDeviceId' = MapSet(deviceByDeviceId, newDevice.deviceid, addr)
                /\ cacheDirty' = TRUE
                /\ last' = Handled("create", TRUE, 201, "Device key created successfully")
          /\ UNCHANGED <<pendingRequests, sock, inbox, req>>

\* ---------------------------------------------------- connection gateway
\* io.to(socketid).emit(...): every socket joins the room named by its own id
\* and leaves it when it closes, so the event reaches that socket iff it is open
EmitTo(box, sk, socketid, event) ==
  [s \in SocketIds |->
     IF s = socketid /\ sk[s].state = "open" THEN Append(box[s], event) ELSE box[s]]

Event(name, requestId, text) == [name |-> name, requestId |-> requestId, text |-> text]

\* lines 255-263: socket.on("disconnect") applied to the device objects
DisconnectHandler(h, socket) ==
  IF socket.deviceObj # Null
  THEN [h EXCEPT ![socket.deviceObj].socketid = Null]
  ELSE h

\* the socket leaves its rooms, is marked closed and its interval is cleared
CloseSocket(sk, s) == [sk EXCEPT ![s].state = "closed", ![s].heartbeatCheck = FALSE]

\* the next socket.io connection attempt gets a fresh socket id
FreshSocket == CHOOSE s \in SocketIds : sock[s].state = "new" /\
                   \A t \in SocketIds : sock[t].state = "new" => s <= t

\* the handshake refused only after the connection handler had set the
\* socket up
RejectHandshakeAfterSetup(message) ==
  /\ last' = Handled("connect", FALSE, 0, message)
  /\ sock' = [sock EXCEPT ![FreshSocket] = [state |-> "open", deviceId |-> Null,
                                            deviceObj |-> Null,
                                            heartbeatCheck |-> TRUE]]
  /\ inbox' = [inbox EXCEPT ![FreshSocket] =
                 Append(@, Event("connected", NoRequestId,
                                 "Successfully connected to server"))]
  /\ cacheDirty' = TRUE
  /\ UNCHANGED <<registryVars, pendingRequests, req, lastHeartbeat, nextCheck>>

\* lines 212 and 217: next(new Error(message)); the connection handler never
\* runs for this socket
RejectHandshake(message) ==
  /\ last' = Handled("connect", FALSE, 0, message)
  /\ UNCHANGED <<registryVars, pendingRequests, cacheDirty, sock, inbox, req,
                 lastHeartbeat, nextCheck>>

\* io.use middleware followed by io.on("connection")
Connect(deviceId) ==
  /\ Listening
  /\ \E s \in SocketIds : sock[s].state = "new"
  /\ UNCHANGED <<diskVars, processVars, now>>
  /\ LET s == FreshSocket IN
     IF deviceId = Null
     THEN RejectHandshake("Device ID is required")
     ELSE IF ~MapHas(deviceByDeviceId, deviceId)
     THEN RejectHandshake("Device not registered")
     ELSE LET device == deviceByDeviceId[deviceId] IN
          /\ sock' = [sock EXCEPT ![s] = [state |-> "open", deviceId |-> deviceId,
                                          deviceObj |-> device,
                                          heartbeatCheck |-> TRUE]]
          /\ heap' = [heap EXCEPT ![device].socketid = s]
          /\ cacheDirty' = TRUE
          /\ inbox' = [inbox EXCEPT ![s] =
                         Append(@, Event("connected", NoRequestId,
                                         "Successfully connected to server"))]
          \* lines 244-249: let lastHeartbeat = Date.now(); setInterval(..., 10000)
          /\ lastHeartbeat' = [lastHeartbeat EXCEPT ![s] = now]
          /\ nextCheck' = [nextCheck EXCEPT ![s] = now + CheckInterval]
          /\ last' = Handled("connect", TRUE, 0, "")
          /\ UNCHANGED <<devices, deviceByKey, deviceByDeviceId, pendingRequests, req>>

\* an open socket closes (transport close, client disconnect, or the
\* heartbeat check's socket.disconnect(true)); runs socket.on("disconnect")
Disconnect(s) ==
  /\ Alive
  /\ sock[s].state = "open"
  /\ UNCHANGED <<diskVars, processVars, clockVars>>
  /\ last' = Handled("disconnect", TRUE, 0, "")
  /\ sock' = CloseSocket(sock, s)
  /\ heap' = DisconnectHandler(heap, sock[s])
  /\ cacheDirty' = (IF sock[s].deviceObj # Null THEN TRUE ELSE cacheDirty)
  /\ UNCHANGED <<devices, deviceByKey, deviceByDeviceId, pendingRequests, inbox, req>>

\* ------------------------------------------------------------ DELETE
\* line 115: if (device.socketid)
HasSocketId(device) == heap[device].socketid # Null

\* line 122: devices.findIndex(d => d.key === key), 0 for -1
FindIndex(list, h, key) ==
  IF \E i \in 1..Len(list) : h[list[i]].key = key
  THEN CHOOSE i \in 1..Len(list) :
         /\ h[list[i]].key = key
         /\ \A j \in 1..(i - 1) : h[list[j]].key # key
  ELSE 0

\* line 123: devices.splice(index, 1)
Splice(list, index) ==
  [i \in 1..(Len(list) - 1) |-> IF i < index THEN list[i] ELSE list[i + 1]]

ForceDisconnectEvent == Event("force_disconnect", NoRequestId, "Device key was deleted")

\* the push of lines 116-118 emitted after the socket was closed: nobody is
\* left in the room
ForceDisconnectPushAfterClose(socketid) ==
  EmitTo(inbox, CloseSocket(sock, socketid), socketid, ForceDisconnectEvent)

\* lines 116-118, which run before line 119 closes the socket
ForceDisconnectPush(socketid) == EmitTo(inbox, sock, socketid, ForceDisconnectEvent)

\* DELETE /device/:key
DeleteDevice(key) ==
  /\ Listening
  /\ UNCHANGED <<diskVars, processVars, clockVars>>
  /\ IF ~MapHas(deviceByKey, key)
     THEN /\ last' = Handled("delete", FALSE, 404, "Device key not found")
          /\ UNCHANGED <<registryVars, pendingRequests, cacheDirty, sock, inbox, req>>
     ELSE LET device == deviceByKey[key]
              socketid == heap[device].socketid
              push == HasSocketId(device)
              \* io.sockets.sockets.get(socketid)?.disconnect()
              closing == push /\ sock[socketid].state = "open"
              heap1 == IF closing THEN DisconnectHandler(heap, sock[socketid]) ELSE heap
              index == FindIndex(devices, heap1, key)
          IN /\ inbox' = (IF push THEN ForceDisconnectPush(socketid) ELSE inbox)
             /\ sock' = (IF closing THEN CloseSocket(sock, socketid) ELSE sock)
             /\ heap' = heap1
             /\ devices' = (IF index # 0 THEN Splice(devices, index) ELSE devices)
             /\ deviceByKey' = MapDelete(deviceByKey, key)
             /\ deviceByDeviceId' = (IF heap1[device].deviceid # Null
                                     THEN MapDelete(deviceByDeviceId, heap1[device].deviceid)
                                     ELSE deviceByDeviceId)
             /\ cacheDirty' = TRUE
             /\ last' = Handled("delete", TRUE, 200, "Device key deleted successfully")
             /\ UNCHANGED <<pendingRequests, req>>

\* ------------------------------------------- request correlation broker
NoValue == [requestId |-> NoRequestId, status |-> FALSE, message |-> ""]
TimeoutError ==
  [requestId |-> NoRequestId, status |-> FALSE,
   message |-> "Device did not respond in time"]

\* lines 194-198: res.json after the await, run when the promise fulfils
ThenBranch(p) ==
  [p EXCEPT !.responses =
     Append(@, [code |-> 200, status |-> p.value.status,
                deviceMessage |-> p.value.message])]

\* lines 199-205: the catch block's response, run when the promise rejects
CatchBranch(p) ==
  [p EXCEPT !.responses =
     Append(@, [code |-> 408, status |-> FALSE, deviceMessage |-> p.value.message])]

\* the response sent from the callback itself instead of through a promise
ResolveEveryTime(p, response) ==
  ThenBranch([p EXCEPT !.promise = "fulfilled", !.value = response])

\* line 184: resolve(response) of the promise of line 176; a promise settles
\* once, and the code after the await runs when it does
Resolve(p, response) ==
  IF p.promise = "pending"
  THEN ThenBranch([p EXCEPT !.promise = "fulfilled", !.value = response])
  ELSE p

\* line 179: reject(new Error(...)) of the promise of line 176
Reject(p, error) ==
  IF p.promise = "pending"
  THEN CatchBranch([p EXCEPT !.promise = "rejected", !.value = error])
  ELSE p

\* the connection check reading a field the records do not have
NotConnectedWrongField(device) == FALSE

\* line 167: if (!device.socketid)
NotConnected(device) == heap[device].socketid = Null

\* a requestId without the time and random parts
RequestIdPerDevice(deviceId) == <<deviceId, 1>>

\* lines 171-173
NewRequestId(deviceId) == <<deviceId, Len(req) + 1>>

\* POST /send
Send(deviceId, destNumber, textMessage) ==
  /\ Listening
  /\ UNCHANGED <<diskVars, processVars, clockVars>>
  /\ IF deviceId = Null \/ destNumber = "" \/ textMessage = ""
     THEN /\ last' = Handled("send", FALSE, 400,
                             "Device ID, destination number, and text message are required")
          /\ UNCHANGED <<registryVars, pendingRequests, cacheDirty, sock, inbox, req>>
     ELSE IF ~MapHas(deviceByDeviceId, deviceId)
     THEN /\ last' = Handled("send", FALSE, 404,
                             "Device not registered")
          /\ UNCHANGED <<registryVars, pendingRequests, cacheDirty, sock, inbox, req>>
     ELSE IF NotConnected(deviceByDeviceId[deviceId])
     THEN /\ last' = Handled("send", FALSE, 404,
                             "Device not connected")
          /\ UNCHANGED <<registryVars, pendingRequests, cacheDirty, sock, inbox, req>>
     ELSE /\ Len(req) < MaxRequests
          /\ LET device == deviceByDeviceId[deviceId]
                 requestId == NewRequestId(deviceId)
                 n == Len(req) + 1
             IN /\ req' = Append(req, [requestId |-> requestId, promise |-> "pending",
                                       value |-> NoValue, timeout |-> "armed",
                                       resolverCalls |-> 0, responses |-> <<>>])
                /\ pendingRequests' = MapSet(pendingRequests, requestId, n)
                /\ inbox' = EmitTo(inbox, sock, heap[device].socketid,
                                   Event("insert-sms", requestId, textMessage))
                /\ last' = Handled("send", TRUE, 0, "")
          /\ UNCHANGED <<registryVars, cacheDirty, sock>>

\* replies matched by arrival order: the oldest entry of the table
OldestResolver(requestId) ==
  IF pendingRequests = EmptyMap
  THEN Null
  ELSE CHOOSE n \in {pendingRequests[r] : r \in DOMAIN pendingRequests} :
         \A r \in DOMAIN pendingRequests : n <= pendingRequests[r]

\* line 238: pendingRequests.get(response.requestId), Null for undefined
Resolver(requestId) ==
  IF MapHas(pendingRequests, requestId) THEN pendingRequests[requestId] ELSE Null

\* lines 182-185: the resolver closure of send call n, then the code after await
CallResolver(rq, n, response) ==
  LET cleared == [rq[n] EXCEPT !.timeout = (IF @ = "armed" THEN "cleared" ELSE @),
                               !.resolverCalls = @ + 1]
  IN [rq EXCEPT ![n] = Resolve(cleared, response)]

\* socket.on("sms-response") on open socket s
SmsResponse(s, response) ==
  /\ Alive
  /\ sock[s].state = "open"
  /\ UNCHANGED <<diskVars, processVars, clockVars>>
  /\ last' = Handled("sms-response", Resolver(response.requestId) # Null, 0, "")
  /\ LET resolver == Resolver(response.requestId) IN
     IF resolver # Null
     THEN /\ req[resolver].resolverCalls < MaxResolverCalls
          /\ req' = CallResolver(req, resolver, response)
     ELSE UNCHANGED req
  /\ UNCHANGED <<registryVars, pendingRequests, cacheDirty, sock, inbox>>

\* a deadline callback that removes the entry and forgets to reject
DeadlineFiresWithoutReject(n) ==
  /\ Alive
  /\ n \in DOMAIN req
  /\ req[n].timeout = "armed"
  /\ UNCHANGED <<diskVars, processVars, clockVars>>
  /\ req' = [req EXCEPT ![n].timeout = "fired"]
  /\ pendingRequests' = MapDelete(pendingRequests, req[n].requestId)
  /\ last' = Handled("deadline", TRUE, 0, "")
  /\ UNCHANGED <<registryVars, cacheDirty, sock, inbox>>

\* lines 177-180: the setTimeout callback of send call n, then the catch block
DeadlineFires(n) ==
  /\ Alive
  /\ n \in DOMAIN req
  /\ req[n].timeout = "armed"
  /\ UNCHANGED <<diskVars, processVars, clockVars>>
  /\ last' = Handled("deadline", TRUE, 0, "")
  /\ LET fired == [req[n] EXCEPT !.timeout = "fired"]
     IN /\ req' = [req EXCEPT ![n] = Reject(fired, TimeoutError)]
        \* line 178, and again line 200 when the catch block runs
        /\ pendingRequests' = MapDelete(pendingRequests, req[n].requestId)
  /\ UNCHANGED <<registryVars, cacheDirty, sock, inbox>>

\* -------------------------------------------------------------- heartbeat
\* lines 251-253: socket.on("heartbeat", () => { lastHeartbeat = Date.now() })
Heartbeat(s) ==
  /\ Alive
  /\ sock[s].state = "open"
  /\ lastHeartbeat' = [lastHeartbeat EXCEPT ![s] = now]
  /\ last' = Handled("heartbeat", TRUE, 0, "")
  /\ UNCHANGED <<registryVars, pendingRequests, cacheDirty, sock, inbox, req,
                 diskVars, processVars, now, nextCheck>>

\* the window closed as soon as it is reached
HeartbeatExpiredAtWindow(s) == now - lastHeartbeat[s] >= HeartbeatWindow

\* line 246: Date.now() - lastHeartbeat > 30000
HeartbeatExpired(s) == now - lastHeartbeat[s] > HeartbeatWindow

\* lines 245-249: one run of the interval callback of socket s; the interval
\* exists until clearInterval (line 256); socket.disconnect(true) runs the
\* "disconnect" handler (lines 255-263)
HeartbeatCheck(s) ==
  /\ Alive
  /\ sock[s].heartbeatCheck
  /\ now >= nextCheck[s]
  /\ nextCheck' = [nextCheck EXCEPT ![s] = @ + CheckInterval]
  /\ last' = Handled("check", HeartbeatExpired(s), 0, "")
  /\ IF HeartbeatExpired(s)
     THEN /\ sock' = CloseSocket(sock, s)
          /\ heap' = DisconnectHandler(heap, sock[s])
          /\ cacheDirty' = (IF sock[s].deviceObj # Null THEN TRUE ELSE cacheDirty)
     ELSE UNCHANGED <<sock, heap, cacheDirty>>
  /\ UNCHANGED <<devices, deviceByKey, deviceByDeviceId, pendingRequests,
                 inbox, req, diskVars, processVars, now, lastHeartbeat>>

\* Date.now() moves on by one check interval once the callbacks that are due
\* have run
AdvanceTime ==
  /\ now < MaxTicks * CheckInterval
  /\ \A s \in SocketIds : sock[s].heartbeatCheck => now < nextCheck[s]
  /\ now' = now + CheckInterval
  /\ last' = Handled("time", TRUE, 0, "")
  /\ UNCHANGED <<registryVars, pendingRequests, cacheDirty, sock, inbox, req,
                 diskVars, processVars, lastHeartbeat, nextCheck>>

\* ----------------------------------------------------- persistence cache
\* line 61: JSON.stringify(devices), every field of every listed record
Serialize(list, h) == [i \in 1..Len(list) |-> h[list[i]]]

RemoveAt(seq, i) == [j \in 1..(Len(seq) - 1) |-> IF j < i THEN seq[j] ELSE seq[j + 1]]

\* lines 57-61: saveDevices up to the await, called by setInterval (line 68);
\* the document is built before the write starts
SaveTick ==
  /\ Alive
  /\ IF ~cacheDirty
     THEN /\ last' = Handled("save", FALSE, 0, "")
          /\ UNCHANGED writes
     ELSE /\ Len(writes) < MaxWrites
          /\ writes' = Append(writes, [doc |-> Serialize(devices, heap),
                                       by |-> "interval"])
          /\ last' = Handled("save", TRUE, 0, "")
  /\ UNCHANGED <<registryVars, pendingRequests, cacheDirty, sock, inbox, req,
                 file, processVars, clockVars>>

\* lines 61-62: a writeFile finishes, then cacheDirty = false; for the call
\* made by the SIGINT handler, line 286 (server.close) follows
WriteSucceeds(i) ==
  /\ Alive
  /\ i \in DOMAIN writes
  /\ file' = Document(writes[i].doc)
  /\ cacheDirty' = FALSE
  /\ writes' = RemoveAt(writes, i)
  /\ IF writes[i].by = "sigint"
     THEN phase' = "closing" /\ shutdownFlush' = "written"
     ELSE UNCHANGED processVars
  /\ last' = Handled("write", TRUE, 0, "")
  /\ UNCHANGED <<registryVars, pendingRequests, sock, inbox, req, clockVars>>

\* lines 63-65: a writeFile fails; the error is logged
WriteFails(i) ==
  /\ Alive
  /\ i \in DOMAIN writes
  /\ writes' = RemoveAt(writes, i)
  /\ IF writes[i].by = "sigint"
     THEN phase' = "closing" /\ shutdownFlush' = "failed"
     ELSE UNCHANGED processVars
  /\ last' = Handled("write", FALSE, 0, "Error saving devices")
  /\ UNCHANGED <<registryVars, pendingRequests, cacheDirty, sock, inbox, req,
                 file, clockVars>>

\* ------------------------------------------------------ process lifecycle
\* lines 281-283: devices.forEach(device => { device.socketid = null })
ClearSocketIds(h, list) ==
  [a \in DOMAIN h |->
     IF \E i \in 1..Len(list) : list[i] = a THEN [h[a] EXCEPT !.socketid = Null]
     ELSE h[a]]

\* process.on("SIGINT") up to the await of saveDevices, and past it (line 286)
\* when saveDevices returns at line 58
Sigint ==
  /\ phase = "up"
  /\ heap' = ClearSocketIds(heap, devices)
  /\ IF ~cacheDirty
     THEN /\ phase' = "closing"
          /\ shutdownFlush' = "skipped"
          /\ UNCHANGED writes
     ELSE /\ Len(writes) < MaxWrites
          /\ writes' = Append(writes, [doc |-> Serialize(devices, heap'),
                                       by |-> "sigint"])
          /\ phase' = "stopping"
          /\ shutdownFlush' = "pending"
  /\ last' = Handled("sigint", cacheDirty, 0, "")
  /\ UNCHANGED <<devices, deviceByKey, deviceByDeviceId, pendingRequests,
                 cacheDirty, sock, inbox, req, file, clockVars>>

\* lines 286-289: the callback of server.close runs once every connection
\* has ended; process.exit(0) abandons the writes still in flight
Exit ==
  /\ phase = "closing"
  /\ \A s \in SocketIds : sock[s].state # "open"
  /\ phase' = "exited"
  /\ writes' = <<>>
  /\ last' = Handled("exit", TRUE, 0, "")
  /\ UNCHANGED <<registryVars, pendingRequests, cacheDirty, sock, inbox, req,
                 file, shutdownFlush, clockVars>>

\* the process is killed: its connections and its writes in flight die with it
Crash ==
  /\ Alive
  /\ phase' = "down"
  /\ writes' = <<>>
  /\ sock' = [s \in SocketIds |->
               IF sock[s].state = "open" THEN CloseSocket(sock, s)[s] ELSE sock[s]]
  /\ last' = Handled("crash", TRUE, 0, "")
  /\ UNCHANGED <<registryVars, pendingRequests, cacheDirty, inbox, req,
                 file, shutdownFlush, clockVars>>

\* devices.json is damaged while the server is not running
DamageFile ==
  /\ phase \in {"down", "exited"}
  /\ file.status = "ok"
  /\ file' = FileCorrupt
  /\ last' = Handled("damage", TRUE, 0, "")
  /\ UNCHANGED <<registryVars, pendingRequests, cacheDirty, sock, inbox, req,
                 writes, processVars, clockVars>>

\* lines 42-47: the records of the document become the device objects of the
\* new process; the record with deviceid d is kept at address d
LoadedHeap(h, doc) ==
  [a \in DOMAIN h |->
     IF \E i \in 1..Len(doc) : doc[i].deviceid = a
     THEN doc[CHOOSE i \in 1..Len(doc) :
                /\ doc[i].deviceid = a
                /\ \A j \in 1..Len(doc) : doc[j].deviceid = a => j <= i]
     ELSE h[a]]

\* lines 42-46: deviceByKey.set / deviceByDeviceId.set for each record, a
\* later record replacing an earlier one with the same key
LoadedIndex(doc, field) ==
  [k \in {doc[i][field] : i \in 1..Len(doc)} |->
     doc[CHOOSE i \in 1..Len(doc) :
           /\ doc[i][field] = k
           /\ \A j \in 1..Len(doc) : doc[j][field] = k => j <= i].deviceid]

\* a new process: module state of lines 27-34, then startServer (lines
\* 266-276) with loadDevices (lines 37-55) and server.listen
StartServer ==
  /\ phase \in {"down", "exited"}
  /\ pendingRequests' = EmptyMap
  /\ req' = <<>>
  /\ cacheDirty' = FALSE
  /\ shutdownFlush' = "none"
  /\ writes' = <<>>
  /\ sock' = [s \in SocketIds |-> [sock[s] EXCEPT !.deviceObj = Null]]
  /\ IF file.status = "missing"
     THEN \* lines 49-50: ENOENT, write "[]"
          /\ file' = Document(<<>>)
          /\ devices' = <<>>
          /\ deviceByKey' = EmptyMap
          /\ deviceByDeviceId' = EmptyMap
          /\ last' = Handled("load", TRUE, 0, "")
          /\ UNCHANGED heap
     ELSE IF file.status = "corrupt"
     THEN \* lines 51-53: any other error is logged and loadDevices returns
          /\ devices' = <<>>
          /\ deviceByKey' = EmptyMap
          /\ deviceByDeviceId' = EmptyMap
          /\ last' = Handled("load", FALSE, 0, "Error loading devices")
          /\ UNCHANGED <<heap, file>>
     ELSE /\ heap' = LoadedHeap(heap, file.doc)
          /\ devices' = [i \in 1..Len(file.doc) |-> file.doc[i].deviceid]
          /\ deviceByKey' = LoadedIndex(file.doc, "key")
          /\ deviceByDeviceId' = LoadedIndex(file.doc, "deviceid")
          /\ last' = Handled("load", TRUE, 0, "")
          /\ UNCHANGED file
  \* lines 269-271: server.listen
  /\ phase' = "up"
  /\ UNCHANGED <<inbox, clockVars>>

\* ------------------------------------------------------------------ spec
Create == \E key \in KeyInputs : CreateDevice(key)
Delete == \E key \in Keys : DeleteDevice(key)
Connection == \E deviceId \in DeviceIdInputs : Connect(deviceId)
Disconnection == \E s \in SocketIds : Disconnect(s)
SendSms ==
  \E deviceId \in DeviceIdInputs, destNumber \in DestNumberInputs,
     textMessage \in TextMessageInputs : Send(deviceId, destNumber, textMessage)
Reply == \E s \in SocketIds, response \in ResponseInputs : SmsResponse(s, response)
Deadline == \E n \in ReqNums : DeadlineFires(n)

Next ==
  \/ Create
  \/ Delete
  \/ Connection
  \/ Disconnection
  \/ SendSms
  \/ Reply
  \/ Deadline

Spec == Init /\ [][Next]_vars

\* the event loop runs every timer that is due: an armed deadline fires
LiveSpec == Spec /\ \A n \in ReqNums : WF_vars(DeadlineFires(n))

Save == SaveTick
WriteDone == \E i \in 1..MaxWrites : WriteSucceeds(i)
WriteError == \E i \in 1..MaxWrites : WriteFails(i)

\* the registry, the gateway and the persistence cache of one process run;
\* the broker (Send, SmsResponse, DeadlineFires) reads the registry and never
\* writes it, the dirty flag or the file
FlushNext ==
  \/ Create
  \/ Delete
  \/ Connection
  \/ Disconnection
  \/ Save
  \/ WriteDone
  \/ WriteError

\* the interval timer keeps calling saveDevices, and writes succeed in the end
FlushSpec ==
  /\ Init
  /\ [][FlushNext]_vars
  /\ WF_vars(SaveTick)
  /\ SF_vars(WriteDone)

Beat == \E s \in SocketIds : Heartbeat(s)
Check == \E s \in SocketIds : HeartbeatCheck(s)
Clock == AdvanceTime

\* the registry and the gateway with the clock and the liveness checks
HeartbeatNext ==
  \/ Create
  \/ Delete
  \/ Connection
  \/ Disconnection
  \/ Beat
  \/ Check
  \/ Clock

HeartbeatSpec == Init /\ [][HeartbeatNext]_vars

\* a fresh installation: no process yet, no devices.json
LifeInit ==
  /\ heap = <<>>
  /\ devices = <<>>
  /\ deviceByKey = EmptyMap
  /\ deviceByDeviceId = EmptyMap
  /\ pendingRequests = EmptyMap
  /\ cacheDirty = FALSE
  /\ sock = [s \in SocketIds |->
               [state |-> "new", deviceId |-> Null, deviceObj |-> Null,
                heartbeatCheck |-> FALSE]]
  /\ inbox = [s \in SocketIds |-> <<>>]
  /\ req = <<>>
  /\ last = Handled("init", FALSE, 0, "")
  /\ file = FileMissing
  /\ writes = <<>>
  /\ phase = "down"
  /\ shutdownFlush = "none"
  /\ now = 0
  /\ lastHeartbeat = [s \in SocketIds |-> 0]
  /\ nextCheck = [s \in SocketIds |-> 0]

\* processes started, stopped by SIGINT or killed, and started again over the
\* same devices.json
LifeNext ==
  \/ Create
  \/ Delete
  \/ Connection
  \/ Disconnection
  \/ Save
  \/ WriteDone
  \/ WriteError
  \/ Sigint
  \/ Exit
  \/ Crash
  \/ DamageFile
  \/ StartServer

LifeSpec == LifeInit /\ [][LifeNext]_vars

\* ================================================================ claims
progVars == <<heap, devices, deviceByKey, deviceByDeviceId, pendingRequests,
              cacheDirty, sock, inbox, req>>

Responded(n) == req[n].responses # <<>>
Registered(deviceId) == MapHas(deviceByDeviceId, deviceId)

\* C1: when a connection c1 disconnects while a different connection c2 is
\* open and holds the device's connection reference, the reference still
\* points at c2 afterwards.
C1_StaleDisconnectKeepsBinding ==
  [][\A c1, c2 \in SocketIds :
       (/\ Disconnect(c1)
        /\ c2 # c1
        /\ sock[c2].state = "open"
        /\ heap[sock[c2].deviceObj].socketid = c2)
       => heap'[sock[c2].deviceObj].socketid = c2]_vars

\* C2: a send that registered a pending request gets at most one response;
\* the response is the payload of a reply tagged with its requestId (and then
\* its deadline never fired) or the 408 timeout (and then its deadline fired),
\* never both; a matching reply to a pending send delivers that reply, and a
\* deadline firing on a pending send delivers the timeout.
C2_ExactlyOneOutcome ==
  /\ [](\A n \in DOMAIN req :
          /\ Len(req[n].responses) <= 1
          /\ Responded(n) <=> req[n].promise # "pending"
          /\ req[n].promise = "fulfilled" =>
               /\ req[n].responses[1].code = 200
               /\ req[n].value.requestId = req[n].requestId
               /\ req[n].timeout = "cleared"
          /\ req[n].promise = "rejected" =>
               /\ req[n].responses[1].code = 408
               /\ req[n].timeout = "fired")
  /\ [][/\ \A s \in SocketIds, response \in ResponseInputs, n \in DOMAIN req :
             (/\ req[n].requestId = response.requestId
              /\ req[n].promise = "pending"
              /\ SmsResponse(s, response))
             => req'[n].responses =
                  <<[code |-> 200, status |-> response.status,
                     deviceMessage |-> response.message]>>
        /\ \A n \in DOMAIN req :
             (req[n].promise = "pending" /\ DeadlineFires(n))
             => req'[n].responses =
                  <<[code |-> 408, status |-> FALSE,
                     deviceMessage |-> "Device did not respond in time"]>>
        /\ \A n \in DOMAIN req :
             Responded(n) => req'[n].responses = req[n].responses]_vars

\* a send answered by a reply while another reply for it arrived afterwards,
\* and a send answered by the timeout
C2_Witness ==
  \E n, m \in DOMAIN req :
    /\ req[n].responses # <<>> /\ req[n].responses[1].code = 200
    /\ req[n].resolverCalls = 2
    /\ req[m].responses # <<>> /\ req[m].responses[1].code = 408

\* C3: the table holds no requestId whose caller already received its outcome.
C3_NoAnsweredEntryInTable ==
  \A n \in DOMAIN req : Responded(n) => ~MapHas(pendingRequests, req[n].requestId)

\* C4: the resolver of a pending request is invoked at most once.
C4_ResolverInvokedAtMostOnce ==
  \A n \in DOMAIN req : req[n].resolverCalls <= 1

\* C5: an sms-response whose requestId is not in the pending table changes
\* nothing and produces no response.
C5_UnknownReplyChangesNothing ==
  [][\A s \in SocketIds, response \in ResponseInputs :
       (~MapHas(pendingRequests, response.requestId) /\ SmsResponse(s, response))
       => (UNCHANGED progVars /\ last'.status = 0 /\ ~last'.ok)]_vars

\* an unknown reply was just dropped while a send is in flight
C5_Witness ==
  /\ last.op = "sms-response"
  /\ ~last.ok
  /\ \E n \in DOMAIN req : req[n].promise = "pending"
  /\ \E d \in DeviceIds : Registered(d) /\ heap[deviceByDeviceId[d]].socketid # Null

\* C6: every send that registered a pending request is eventually answered,
\* and is answered at the latest by the step in which its deadline fires; a
\* send that registers nothing answers in its own step.
C6_EverySendReturns ==
  /\ \A n \in ReqNums : (n \in DOMAIN req) ~> (n \in DOMAIN req /\ Responded(n))
  /\ [][\A n \in DOMAIN req : DeadlineFires(n) => req'[n].responses # <<>>]_vars
  /\ [](last.op = "send" => (last.ok \/ last.status \in {400, 404}))

\* a send was answered by the timeout after its device had been deleted
C6_Witness ==
  \E n \in DOMAIN req :
    /\ Responded(n)
    /\ req[n].responses[1].code = 408
    /\ ~Registered(req[n].requestId[1])

\* C7: a valid send to an unregistered deviceIdentifier answers NotRegistered,
\* one to a registered device without a connection reference answers
\* NotConnected, and neither changes any state.
C7_SendRejectedWithoutEffect ==
  [][\A deviceId \in DeviceIds :
       LET textMessage == "hi"
           destNumber == "+15551234567"
       IN Send(deviceId, destNumber, textMessage) =>
            /\ ~Registered(deviceId) =>
                 /\ last' = Handled("send", FALSE, 404, "Device not registered")
                 /\ UNCHANGED progVars
            /\ (Registered(deviceId) /\ heap[deviceByDeviceId[deviceId]].socketid = Null) =>
                 /\ last' = Handled("send", FALSE, 404, "Device not connected")
                 /\ UNCHANGED progVars]_vars

\* a send was just refused as not connected while another device is connected
C7_Witness ==
  /\ last = Handled("send", FALSE, 404, "Device not connected")
  /\ \E d \in DeviceIds : Registered(d) /\ heap[deviceByDeviceId[d]].socketid = Null
  /\ \E d \in DeviceIds : Registered(d) /\ heap[deviceByDeviceId[d]].socketid # Null

\* C8: a reply changes only the send whose requestId it carries, and resolves
\* it with its own payload if it is pending, whatever else is pending; a
\* fulfilled send holds a reply tagged with its own requestId.
C8_RepliesMatchedByRequestId ==
  /\ [](\A n \in DOMAIN req :
          req[n].promise = "fulfilled" => req[n].value.requestId = req[n].requestId)
  /\ [][\A s \in SocketIds, response \in ResponseInputs :
          SmsResponse(s, response) =>
            \A n \in DOMAIN req :
              /\ req[n].requestId # response.requestId => req'[n] = req[n]
              /\ (req[n].requestId = response.requestId /\ req[n].promise = "pending")
                 => /\ req'[n].promise = "fulfilled"
                    /\ req'[n].value = response
                    /\ req'[n].responses =
                         <<[code |-> 200, status |-> response.status,
                            deviceMessage |-> response.message]>>]_vars

\* the later of two sends to one device was answered while the earlier one
\* is still pending
C8_Witness ==
  \E n, m \in DOMAIN req :
    /\ n < m
    /\ req[n].requestId[1] = req[m].requestId[1]
    /\ req[n].promise = "pending"
    /\ req[m].promise = "fulfilled"
    /\ req[m].responses = <<[code |-> 200, status |-> FALSE, deviceMessage |-> "failed"]>>

\* C9: delete of an unknown key answers 404 and changes nothing; delete of a
\* device whose connection reference is set pushes exactly one
\* force_disconnect to that connection, closes it and removes the record from
\* both indices and the list; with no connection reference nothing is pushed.
C9_DeleteForcesDisconnect ==
  [][\A key \in Keys :
       DeleteDevice(key) =>
         IF ~MapHas(deviceByKey, key)
         THEN /\ last' = Handled("delete", FALSE, 404, "Device key not found")
              /\ UNCHANGED progVars
         ELSE LET device == deviceByKey[key]
                  socketid == heap[device].socketid
              IN /\ ~MapHas(deviceByKey', key)
                 /\ ~MapHas(deviceByDeviceId', heap[device].deviceid)
                 /\ \A i \in 1..Len(devices') : devices'[i] # device
                 /\ Len(devices') = Len(devices) - 1
                 /\ IF socketid # Null
                    THEN /\ inbox'[socketid] = Append(inbox[socketid], ForceDisconnectEvent)
                         /\ \A s \in SocketIds \ {socketid} : inbox'[s] = inbox[s]
                         /\ sock'[socketid].state = "closed"
                         /\ \A s \in SocketIds \ {socketid} : sock'[s] = sock[s]
                    ELSE inbox' = inbox /\ sock' = sock]_vars

\* a delete just pushed force_disconnect to the connection it closed
C9_Witness ==
  /\ last = Handled("delete", TRUE, 200, "Device key deleted successfully")
  /\ \E s \in SocketIds :
       /\ sock[s].state = "closed"
       /\ inbox[s] # <<>>
       /\ inbox[s][Len(inbox[s])] = ForceDisconnectEvent
       /\ ~Registered(sock[s].deviceId)

\* C10: create with a registered key answers 409 and changes nothing.
C10_DuplicateKeyNoMutation ==
  [][\A key \in Keys :
       (MapHas(deviceByKey, key) /\ CreateDevice(key))
       => /\ last' = Handled("create", FALSE, 409, "Key already exists")
          /\ UNCHANGED progVars]_vars

\* a duplicate create was just refused while the store could still take a record
C10_Witness ==
  /\ last = Handled("create", FALSE, 409, "Key already exists")
  /\ Len(heap) < MaxDevices
  /\ deviceByKey # EmptyMap

\* C11: key and deviceid are each unique across the listed devices, and the
\* key index, the deviceid index and the list hold exactly the same records,
\* each index entry keyed by its record's own key / deviceid.
C11_IndicesMatchList ==
  LET listed == {devices[i] : i \in 1..Len(devices)} IN
  /\ \A i, j \in 1..Len(devices) :
       i # j => /\ devices[i] # devices[j]
                /\ heap[devices[i]].key # heap[devices[j]].key
                /\ heap[devices[i]].deviceid # heap[devices[j]].deviceid
  /\ DOMAIN deviceByKey = {heap[a].key : a \in listed}
  /\ \A k \in DOMAIN deviceByKey :
       deviceByKey[k] \in listed /\ heap[deviceByKey[k]].key = k
  /\ DOMAIN deviceByDeviceId = {heap[a].deviceid : a \in listed}
  /\ \A d \in DOMAIN deviceByDeviceId :
       deviceByDeviceId[d] \in listed /\ heap[deviceByDeviceId[d]].deviceid = d

\* a device was created after an earlier one had been deleted
C11_Witness ==
  /\ last = Handled("create", TRUE, 201, "Device key created successfully")
  /\ Len(devices) = 1
  /\ Len(heap) = 2

\* C12: a handshake without deviceId is refused with "Device ID is required",
\* one with an unregistered deviceId with "Device not registered"; neither
\* binds a socket, sets the dirty flag, sends `connected` or starts a timer.
C12_RejectedHandshakeNotBound ==
  [][\A deviceId \in DeviceIdInputs :
       ((deviceId = Null \/ ~Registered(deviceId)) /\ Connect(deviceId))
       => /\ last' = Handled("connect", FALSE, 0,
                             IF deviceId = Null THEN "Device ID is required"
                             ELSE "Device not registered")
          /\ UNCHANGED progVars
          /\ UNCHANGED clockVars]_vars

\* an unregistered deviceId was just refused while a device is registered and
\* a connection is open
C12_Witness ==
  /\ last = Handled("connect", FALSE, 0, "Device not registered")
  /\ deviceByDeviceId # EmptyMap
  /\ \E s \in SocketIds : sock[s].state = "open"
  /\ \E s \in SocketIds : sock[s].state = "new"

\* C20: after a successful delete no connection that authenticated with the
\* deleted device's deviceid is open.
C20_DeleteClosesEveryConnection ==
  [][\A key \in Keys :
       (MapHas(deviceByKey, key) /\ DeleteDevice(key))
       => \A s \in SocketIds :
            sock[s].deviceObj = deviceByKey[key] => sock'[s].state # "open"]_vars

\* C13: every document written to durable storage, by the periodic flush or
\* by the shutdown flush, has a null connection reference in every record.
C13_WrittenDocumentsHaveNoSocketId ==
  file.status = "ok" => \A i \in 1..Len(file.doc) : file.doc[i].socketid = Null

\* C14: when an orderly shutdown has completed without a failure of its
\* flush, whether or not the dirty flag was set at SIGINT, the durable
\* document equals the in-memory list and every connection reference in it
\* is null.
C14_ShutdownLeavesMemoryOnDisk ==
  [][(Exit /\ shutdownFlush \in {"written", "skipped"}) =>
       /\ file' = Document(Serialize(devices', heap'))
       /\ \A i \in 1..Len(devices') : heap'[devices'[i]].socketid = Null]_vars

\* C15: at startup a missing file gives an empty store and an empty file is
\* created; after any other read or parse failure the server does not go on
\* to listen with an empty registry.
C15_LoadFailureStopsStartup ==
  [][StartServer =>
       /\ file.status = "missing" => devices' = <<>> /\ file' = Document(<<>>)
       /\ file.status = "corrupt" => phase' # "up"]_vars

\* C16: in every state where the dirty flag is false and no flush write is
\* in flight, the durable document equals the in-memory list.
C16_CleanFlagMeansFileIsCurrent ==
  (~cacheDirty /\ writes = <<>>) => file = Document(Serialize(devices, heap))

\* C17: a flush tick with the flag unset writes nothing; a failed write
\* leaves the flag and the memory as they were; and when writes eventually
\* succeed, the memory is eventually what durable storage holds.
C17_MutationsReachTheFile ==
  /\ [][(SaveTick /\ ~cacheDirty) => UNCHANGED <<file, writes>>]_vars
  /\ [][\A i \in 1..MaxWrites :
          WriteFails(i) => UNCHANGED <<cacheDirty, registryVars, file>>]_vars
  /\ []<>(file = Document(Serialize(devices, heap)))

\* C19: in every state of a running server, also right after a restart that
\* reloaded the file, a non-null socketid of a listed device identifies an
\* open connection authenticated with that device's deviceid.
C19_SocketIdIsOpenConnection ==
  Alive =>
    \A i \in 1..Len(devices) :
      LET device == heap[devices[i]] IN
        device.socketid # Null =>
          /\ sock[device.socketid].state = "open"
          /\ sock[device.socketid].deviceId = device.deviceid

\* C18: a liveness check closes the connection exactly when its last
\* heartbeat is older than 30 s, so a connection whose heartbeats keep
\* arriving within the window is never closed by a check; checks run only
\* for open connections, the timer being cancelled when the connection closes.
C18_SilentConnectionClosedAtCheck ==
  /\ [][\A s \in SocketIds : HeartbeatCheck(s) =>
          /\ sock[s].state = "open"
          /\ (now - lastHeartbeat[s] > 30000) => sock'[s].state = "closed"
          /\ (now - lastHeartbeat[s] <= 30000) => sock'[s] = sock[s]]_vars
  /\ [](\A s \in SocketIds : sock[s].heartbeatCheck => sock[s].state = "open")

C18_Witness ==
  /\ last = Handled("check", TRUE, 0, "")
  /\ \E s \in SocketIds :
       /\ sock[s].state = "closed"
       /\ ~sock[s].heartbeatCheck
       /\ now - lastHeartbeat[s] > 30000
       /\ nextCheck[s] = now + CheckInterval
  /\ \E s \in SocketIds : sock[s].state = "open" /\ lastHeartbeat[s] > 0

====
